---- MODULE Spec2Model ----
(***************************************************************************)
(* Model of the appointment agent: the record store (storage.py) and the   *)
(* scheduling engine (scheduler.py).                                       *)
(*                                                                         *)
(* Python strings are sequences of one-character strings, so that          *)
(* datetime.strptime and strftime are computed character by character.     *)
(* A time of day is the number of minutes since 1900-01-01 00:00, the      *)
(* date strptime("%H:%M") gives; adding a timedelta is integer addition.   *)
(* The timestamps created_at and updated_at are wall-clock values; the     *)
(* model keeps only whether a record carries them.                         *)
(***************************************************************************)
EXTENDS Integers, Sequences, FiniteSets, TLC

VARIABLES
    store,      \* the deserialised content of the storage file
    readable,   \* whether the storage file exists and holds valid JSON
    result,     \* what the last operation returned, with its store accesses
    created,    \* history: the identifiers given by successful saves, in order
    deleted,    \* history: the identifiers removed by delete_appointment
    callers,    \* two concurrent callers: where each is in its operation
    acked,      \* history: the mutations reported successful, in order
    stale,      \* history: a write was made from a copy older than the file
    undecodable \* the storage file holds bytes that read_text cannot decode

vars ==
    <<store, readable, result, created, deleted, callers, acked, stale,
      undecodable>>

\* What the steps of a single caller leave alone.
race == <<callers, acked, stale>>

----------------------------------------------------------------------------
(* Bounds of the model.                                                    *)

\* The most records the storage file holds.
MaxRecords == 3

\* The most records ever saved, those deleted since included.
MaxSaves == 4

\* The most operations the two concurrent callers begin.
MaxCalls == 3

----------------------------------------------------------------------------
(* Strings.                                                                *)

Digits == <<"0", "1", "2", "3", "4", "5", "6", "7", "8", "9">>

DigitValue == [c \in {Digits[i] : i \in 1..10} |->
                  (CHOOSE i \in 1..10 : Digits[i] = c) - 1]

IsDigit(c) == c \in DOMAIN DigitValue

DigitVal(c) == DigitValue[c]

AllDigits(s) == \A i \in 1..Len(s) : IsDigit(s[i])

RECURSIVE NumVal(_)
NumVal(s) ==
    IF s = <<>> THEN 0
    ELSE 10 * NumVal(SubSeq(s, 1, Len(s) - 1)) + DigitVal(s[Len(s)])

\* The positions of character c in s.
Positions(s, c) == {i \in 1..Len(s) : s[i] = c}

\* "%02d": at least two digits, zero padded (non-negative n).
RECURSIVE Decimal(_)
Decimal(n) ==
    IF n < 10 THEN <<Digits[n + 1]>>
    ELSE Decimal(n \div 10) \o <<Digits[(n % 10) + 1]>>

Format02d(n) ==
    IF n < 0 THEN <<"-">> \o Decimal(-n)
    ELSE IF n < 10 THEN <<"0">> \o Decimal(n)
    ELSE Decimal(n)

\* ord(c) for the characters that occur.
CodePoint ==
    [c \in {" ", "-", ":", "a", "b", "d"} \cup DOMAIN DigitValue |->
        IF c = " " THEN 32
        ELSE IF c = "-" THEN 45
        ELSE IF c = ":" THEN 58
        ELSE IF c = "a" THEN 97
        ELSE IF c = "b" THEN 98
        ELSE IF c = "d" THEN 100
        ELSE 48 + DigitValue[c]]

\* s < t on Python strings: by code point, a proper prefix first.
RECURSIVE StrLess(_, _)
StrLess(s, t) ==
    IF t = <<>> THEN FALSE
    ELSE IF s = <<>> THEN TRUE
    ELSE IF s[1] # t[1] THEN CodePoint[s[1]] < CodePoint[t[1]]
    ELSE StrLess(Tail(s), Tail(t))

\* k1 < k2 on tuples of strings.
RECURSIVE TupleLess(_, _)
TupleLess(k1, k2) ==
    IF k2 = <<>> THEN FALSE
    ELSE IF k1 = <<>> THEN TRUE
    ELSE IF Head(k1) # Head(k2) THEN StrLess(Head(k1), Head(k2))
    ELSE TupleLess(Tail(k1), Tail(k2))

\* sorted(items, key=...): items are [key, item] pairs; the sort is stable,
\* an item goes behind the items whose key is not greater.
InsertByKey(sorted, x) ==
    LET before == {i \in 1..Len(sorted) : ~TupleLess(x.key, sorted[i].key)}
        pos == Cardinality(before)
    IN  SubSeq(sorted, 1, pos) \o <<x>> \o SubSeq(sorted, pos + 1, Len(sorted))

RECURSIVE SortedByKey(_)
SortedByKey(items) ==
    IF items = <<>> THEN <<>>
    ELSE InsertByKey(SortedByKey(SubSeq(items, 1, Len(items) - 1)),
                     items[Len(items)])

----------------------------------------------------------------------------
(* The strings the callers pass.                                           *)

Date15 == <<"2", "0", "2", "6", "-", "0", "1", "-", "1", "5">>
BadDate == <<"0", "1", "-", "1", "5", "-", "2", "0", "2", "6">>

Time1000 == <<"1", "0", ":", "0", "0">>
Time1100 == <<"1", "1", ":", "0", "0">>
BadTime == <<"b", "a", "d">>

Titles == {"Meeting"}
Dates == {Date15, BadDate}
Times == {Time1000, Time1100, BadTime}
Durations == {60}
Ids == 1..(MaxRecords + 1)
\* The (new_date, new_time) pairs reschedule is called with.
Targets == {<<Date15, Time1000>>, <<Date15, Time1100>>, <<Date15, BadTime>>,
            <<BadDate, Time1000>>}
\* The (start_hour, end_hour) pairs get_available_slots is called with.
Windows == {<<9, 17>>, <<9, 24>>}

\* The strings of the callers that look at the day schedule and at the
\* upcoming appointments: a time without its leading zero, a second date.
TimeNine == <<"9", ":", "0", "0">>
Date22 == <<"2", "0", "2", "6", "-", "0", "1", "-", "2", "2">>

ViewTimes == {TimeNine, Time1000}
ViewDates == {Date15, Date22}
ViewTargets == {<<Date22, TimeNine>>, <<BadDate, Time1000>>}
\* datetime.now().date() at the call, and days_ahead.
Todays == {[y |-> 2026, m |-> 1, d |-> 15], [y |-> 2026, m |-> 1, d |-> 16]}
DaysAhead == {6, 7}

\* The calls with appointments of two lengths, moved by half an hour.
Time1030 == <<"1", "0", ":", "3", "0">>

\* (time, duration_minutes) of the appointments created.
MixedLengths == {<<Time1000, 30>>, <<Time1100, 60>>}
MixedTargets == {<<Date15, Time1030>>, <<Date22, Time1000>>}

----------------------------------------------------------------------------
(* datetime.strptime(s, "%H:%M"): hour 2[0-3]|[0-1]\d|\d, a colon, minute  *)
(* [0-5]\d|\d, and nothing left over.  ok = FALSE stands for ValueError.   *)

HourField(h) ==
    /\ Len(h) \in {1, 2}
    /\ AllDigits(h)
    /\ NumVal(h) <= 23

MinuteField(m) ==
    /\ Len(m) \in {1, 2}
    /\ AllDigits(m)
    /\ NumVal(m) <= 59

StrptimeHM(s) ==
    LET colons == Positions(s, ":") IN
    IF Cardinality(colons) # 1 THEN [ok |-> FALSE, minutes |-> 0]
    ELSE LET p == CHOOSE i \in colons : TRUE
             h == SubSeq(s, 1, p - 1)
             m == SubSeq(s, p + 1, Len(s))
         IN  IF HourField(h) /\ MinuteField(m)
             THEN [ok |-> TRUE, minutes |-> 60 * NumVal(h) + NumVal(m)]
             ELSE [ok |-> FALSE, minutes |-> 0]

\* strftime("%H:%M") of a time of day given in minutes.
FormatTime(t) == Format02d((t \div 60) % 24) \o <<":">> \o Format02d(t % 60)

\* strptime is a function of its argument: its values on the callers' strings
\* and on the half hours of the day are computed once.
TimeMemo ==
    [s \in Times \cup ViewTimes \cup {FormatTime(30 * k) : k \in 0..47} |->
        StrptimeHM(s)]

ParseTime(s) == IF s \in DOMAIN TimeMemo THEN TimeMemo[s] ELSE StrptimeHM(s)

----------------------------------------------------------------------------
(* datetime.strptime(s, "%Y-%m-%d"): year \d\d\d\d, month                  *)
(* 1[0-2]|0[1-9]|[1-9], day 3[01]|[12]\d|0[1-9]|[1-9]| [1-9], then the     *)
(* date must exist in the calendar.                                        *)

IsLeap(y) == (y % 4 = 0 /\ y % 100 # 0) \/ y % 400 = 0

DaysInMonth(y, m) ==
    IF m = 2 THEN (IF IsLeap(y) THEN 29 ELSE 28)
    ELSE IF m \in {4, 6, 9, 11} THEN 30 ELSE 31

MonthField(m) ==
    /\ Len(m) \in {1, 2}
    /\ AllDigits(m)
    /\ NumVal(m) \in 1..12

DayField(d) ==
    \/ /\ Len(d) \in {1, 2}
       /\ AllDigits(d)
       /\ NumVal(d) \in 1..31
    \/ /\ Len(d) = 2
       /\ d[1] = " "
       /\ IsDigit(d[2])
       /\ DigitVal(d[2]) >= 1

DayVal(d) == IF d[1] = " " THEN DigitVal(d[2]) ELSE NumVal(d)

StrptimeYMD(s) ==
    LET bad == [ok |-> FALSE, y |-> 0, m |-> 0, d |-> 0]
        hyphens == Positions(s, "-")
    IN
    IF Cardinality(hyphens) # 2 \/ ~(5 \in hyphens) THEN bad
    ELSE LET q == CHOOSE i \in hyphens : i # 5
             ys == SubSeq(s, 1, 4)
             ms == SubSeq(s, 6, q - 1)
             ds == SubSeq(s, q + 1, Len(s))
         IN  IF /\ q > 5
                /\ AllDigits(ys)
                /\ MonthField(ms)
                /\ DayField(ds)
                /\ NumVal(ys) >= 1
                /\ DayVal(ds) <= DaysInMonth(NumVal(ys), NumVal(ms))
             THEN [ok |-> TRUE, y |-> NumVal(ys), m |-> NumVal(ms), d |-> DayVal(ds)]
             ELSE bad

DateMemo == [s \in Dates \cup ViewDates |-> StrptimeYMD(s)]

\* date.toordinal(): the days from 0001-01-01, which is day 1.
RECURSIVE DaysBeforeMonth(_, _)
DaysBeforeMonth(y, m) ==
    IF m = 1 THEN 0 ELSE DaysBeforeMonth(y, m - 1) + DaysInMonth(y, m - 1)

ToOrdinal(date) ==
    LET y1 == date.y - 1 IN
    365 * y1 + (y1 \div 4) - (y1 \div 100) + (y1 \div 400)
        + DaysBeforeMonth(date.y, date.m) + date.d

ParseDate(s) == IF s \in DOMAIN DateMemo THEN DateMemo[s] ELSE StrptimeYMD(s)

----------------------------------------------------------------------------
(* The record store (storage.py).  A file f is [data, readable]; every     *)
(* operation returns the file it leaves behind with what it answers.       *)

None == [none |-> TRUE]

\* load_appointments: the whole collection, or [] when the file is missing
\* or does not hold JSON.
LoadAppointments(f) == IF f.readable THEN f.data ELSE <<>>

\* WriteText that reports as told and writes nothing.
WriteTextNothing(f, appointments, ok) == f

\* storage_file.write_text(json.dumps(appointments)): ok says whether the
\* write went through; a refused write leaves the file as it was.
WriteText(f, appointments, ok) ==
    IF ok THEN [data |-> appointments, readable |-> TRUE] ELSE f

\* NextId numbering from the count itself.
NextIdFromCount(appointments) == Len(appointments)

\* The identifier save_appointment gives: the number of records plus one.
NextId(appointments) == Len(appointments) + 1

SaveAppointment(f, appointment, ok) ==
    LET appointments == LoadAppointments(f)
        saved == [appointment EXCEPT !.id = NextId(appointments),
                                     !.created_at = TRUE]
    IN  [file |-> WriteText(f, Append(appointments, saved), ok),
         ok |-> ok,
         appointment |-> saved]

\* FindIndex falling back on the last record when none has the identifier.
FindIndexOrLast(appointments, id) ==
    LET hits == {i \in 1..Len(appointments) : appointments[i].id = id} IN
    IF hits = {} THEN Len(appointments)
    ELSE CHOOSE i \in hits : \A j \in hits : i <= j

\* The first index whose record has the identifier, 0 when there is none.
FindIndex(appointments, id) ==
    LET hits == {i \in 1..Len(appointments) : appointments[i].id = id} IN
    IF hits = {} THEN 0 ELSE CHOOSE i \in hits : \A j \in hits : i <= j

GetAppointment(f, id) ==
    LET appointments == LoadAppointments(f)
        i == FindIndex(appointments, id)
    IN  IF i = 0 THEN None ELSE appointments[i]

\* DictUpdate that puts the status back to scheduled when a date is given.
DictUpdateReviving(rec, updated_data) ==
    [k \in DOMAIN rec |->
        IF k \in DOMAIN updated_data THEN updated_data[k]
        ELSE IF k = "status" /\ "date" \in DOMAIN updated_data THEN "scheduled"
        ELSE rec[k]]

\* dict.update: the fields of updated_data replace those of the record.
DictUpdate(rec, updated_data) ==
    [k \in DOMAIN rec |->
        IF k \in DOMAIN updated_data THEN updated_data[k] ELSE rec[k]]

\* UpdateAppointment that changes every record of the collection.
UpdateAppointmentEvery(f, id, updated_data, ok) ==
    LET appointments == LoadAppointments(f)
        i == FindIndex(appointments, id)
        Stamped(rec) == DictUpdate(DictUpdate(rec, updated_data),
                                   [updated_at |-> TRUE])
    IN  IF i = 0 THEN [file |-> f, ok |-> FALSE, writes |-> 0]
        ELSE [file |-> WriteText(f, [j \in 1..Len(appointments) |->
                                        Stamped(appointments[j])], ok),
              ok |-> ok,
              writes |-> 1]

UpdateAppointment(f, id, updated_data, ok) ==
    LET appointments == LoadAppointments(f)
        i == FindIndex(appointments, id)
        stamped == DictUpdate(DictUpdate(appointments[i], updated_data),
                              [updated_at |-> TRUE])
    IN  IF i = 0 THEN [file |-> f, ok |-> FALSE, writes |-> 0]
        ELSE [file |-> WriteText(f, [appointments EXCEPT ![i] = stamped], ok),
              ok |-> ok,
              writes |-> 1]

DeleteAppointment(f, id, ok) ==
    LET appointments == LoadAppointments(f)
        Other(a) == a.id # id
        kept == SelectSeq(appointments, Other)
    IN  IF Len(kept) < Len(appointments)
        THEN [file |-> WriteText(f, kept, ok), ok |-> ok, writes |-> 1]
        ELSE [file |-> f, ok |-> FALSE, writes |-> 0]

GetAppointmentsByDate(f, date_str) ==
    LET OnDate(a) == a.date = date_str IN
    SelectSeq(LoadAppointments(f), OnDate)

----------------------------------------------------------------------------
(* The scheduling engine (scheduler.py).  An operation returns             *)
(* [file, ret, raised, loads, writes]: the file it leaves, the value it    *)
(* returns, whether it raised instead, and how many times it read          *)
(* (load_appointments) and wrote (write_text) the storage file.            *)

InvalidFormatError == "Invalid date or time format"
ConflictError == "Appointment conflicts with existing slots"
RescheduleConflictError == "New time has conflicts"
NotFoundError == "Appointment not found"

\* The test of line 74 on two intervals given by start and end.
Overlap(start_time, end_time, appt_start, appt_end) ==
    start_time < appt_end /\ end_time > appt_start

ConflictEntry(appt) ==
    [id |-> appt.id, title |-> appt.title, time |-> appt.time,
     duration |-> appt.duration_minutes]

\* The loop of lines 66-80.  A stored time that does not parse raises
\* ValueError, which line 81 catches: the loop ends there and the conflicts
\* found so far are returned.
RECURSIVE ConflictLoop(_, _, _, _)
ConflictLoop(appointments, start_time, end_time, conflicts) ==
    IF appointments = <<>> THEN conflicts
    ELSE LET appt == Head(appointments)
             parsed == ParseTime(appt.time)
             appt_start == parsed.minutes
             appt_end == appt_start + appt.duration_minutes
         IN  IF appt.status = "cancelled"
             THEN ConflictLoop(Tail(appointments), start_time, end_time, conflicts)
             ELSE IF ~parsed.ok THEN conflicts
             ELSE ConflictLoop(Tail(appointments), start_time, end_time,
                     IF Overlap(start_time, end_time, appt_start, appt_end)
                     THEN Append(conflicts, ConflictEntry(appt))
                     ELSE conflicts)

CheckConflicts(f, date, time, duration) ==
    LET appointments == GetAppointmentsByDate(f, date)
        parsed == ParseTime(time)
    IN  IF ~parsed.ok THEN <<>>
        ELSE ConflictLoop(appointments, parsed.minutes,
                          parsed.minutes + duration, <<>>)

\* ValidFormat with the check of the time left out.
ValidFormatDateOnly(date, time) == ParseDate(date).ok

\* Lines 26-30: both strptime calls succeed.
ValidFormat(date, time) == ParseDate(date).ok /\ ParseTime(time).ok

NewAppointment(title, date, time, duration_minutes, client_name, description) ==
    [title |-> title, date |-> date, time |-> time,
     duration_minutes |-> duration_minutes, client_name |-> client_name,
     description |-> description, status |-> "scheduled",
     id |-> 0, created_at |-> FALSE, updated_at |-> FALSE]

CreateAppointment(f, title, date, time, duration_minutes, client_name, description, ok) ==
    LET conflicts == CheckConflicts(f, date, time, duration_minutes)
        saved == SaveAppointment(f,
                    NewAppointment(title, date, time, duration_minutes,
                                   client_name, description), ok)
    IN  IF ~ValidFormat(date, time)
        THEN [file |-> f, raised |-> FALSE, loads |-> 0, writes |-> 0,
              ret |-> [success |-> FALSE, error |-> InvalidFormatError]]
        ELSE IF conflicts # <<>>
        THEN [file |-> f, raised |-> FALSE, loads |-> 1, writes |-> 0,
              ret |-> [success |-> FALSE, error |-> ConflictError,
                       conflicts |-> conflicts]]
        ELSE [file |-> saved.file, raised |-> FALSE, loads |-> 2, writes |-> 1,
              ret |-> [success |-> saved.ok,
                       appointment |-> IF saved.ok THEN saved.appointment
                                       ELSE None]]

RescheduleAppointment(f, appointment_id, new_date, new_time, ok) ==
    LET appointment == GetAppointment(f, appointment_id)
        duration == appointment.duration_minutes
        conflicts == CheckConflicts(f, new_date, new_time, duration)
        updated == UpdateAppointment(f, appointment_id,
                      [date |-> new_date, time |-> new_time], ok)
    IN  IF appointment = None
        THEN [file |-> f, raised |-> FALSE, loads |-> 1, writes |-> 0,
              ret |-> [success |-> FALSE, error |-> NotFoundError]]
        ELSE IF conflicts # <<>>
        THEN [file |-> f, raised |-> FALSE, loads |-> 2, writes |-> 0,
              ret |-> [success |-> FALSE, error |-> RescheduleConflictError,
                       conflicts |-> conflicts]]
        ELSE [file |-> updated.file, raised |-> FALSE, loads |-> 3,
              writes |-> updated.writes,
              ret |-> [success |-> updated.ok,
                       message |-> IF updated.ok
                                   THEN "Appointment rescheduled successfully"
                                   ELSE "Failed to reschedule"]]

\* CancelAppointment that removes the record with delete_appointment.
CancelByDelete(f, appointment_id, ok) ==
    LET appointment == GetAppointment(f, appointment_id)
        removed == DeleteAppointment(f, appointment_id, ok)
    IN  IF appointment = None
        THEN [file |-> f, raised |-> FALSE, loads |-> 1, writes |-> 0,
              ret |-> [success |-> FALSE, error |-> NotFoundError]]
        ELSE [file |-> removed.file, raised |-> FALSE, loads |-> 2,
              writes |-> removed.writes,
              ret |-> [success |-> removed.ok,
                       message |-> "Appointment cancelled"]]

CancelAppointment(f, appointment_id, ok) ==
    LET appointment == GetAppointment(f, appointment_id)
        updated == UpdateAppointment(f, appointment_id,
                      [status |-> "cancelled"], ok)
    IN  IF appointment = None
        THEN [file |-> f, raised |-> FALSE, loads |-> 1, writes |-> 0,
              ret |-> [success |-> FALSE, error |-> NotFoundError]]
        ELSE [file |-> updated.file, raised |-> FALSE, loads |-> 2,
              writes |-> updated.writes,
              ret |-> [success |-> updated.ok,
                       message |-> IF updated.ok THEN "Appointment cancelled"
                                   ELSE "Failed to cancel"]]

\* f"{hour:02d}:00"
HourString(hour) == Format02d(hour) \o <<":", "0", "0">>

\* The defaults of get_available_slots and the distance between candidates.
DefaultStartHour == 9

DefaultEndHour == 17

SlotMinutes == 30

\* LoopContinues with the end of the window taken in.
LoopContinuesInclusive(current_time, end_time) == current_time <= end_time

\* Line 104: the candidate is before the end of the window.
LoopContinues(current_time, end_time) == current_time < end_time

\* The loop of lines 104-111: one conflict check per candidate.
RECURSIVE SlotLoop(_, _, _, _, _, _)
SlotLoop(f, date, duration_minutes, current_time, end_time, available_slots) ==
    IF ~LoopContinues(current_time, end_time) THEN available_slots
    ELSE LET time_str == FormatTime(current_time)
             conflicts == CheckConflicts(f, date, time_str, duration_minutes)
         IN  SlotLoop(f, date, duration_minutes, current_time + SlotMinutes,
                      end_time,
                      IF conflicts = <<>> THEN Append(available_slots, time_str)
                      ELSE available_slots)

\* The number of candidates the loop visits, each one read of the file.
RECURSIVE Candidates(_, _)
Candidates(current_time, end_time) ==
    IF ~LoopContinues(current_time, end_time) THEN 0
    ELSE 1 + Candidates(current_time + SlotMinutes, end_time)

\* GetAvailableSlots without the validation of the date.
GetAvailableSlotsAnyDate(f, date, duration_minutes, start_hour, end_hour) ==
    LET current_time == ParseTime(HourString(start_hour))
        end_time == ParseTime(HourString(end_hour))
    IN  IF ~current_time.ok \/ ~end_time.ok
        THEN [file |-> f, raised |-> TRUE, loads |-> 0, writes |-> 0,
              ret |-> <<>>]
        ELSE [file |-> f, raised |-> FALSE, writes |-> 0,
              loads |-> Candidates(current_time.minutes, end_time.minutes),
              ret |-> SlotLoop(f, date, duration_minutes, current_time.minutes,
                               end_time.minutes, <<>>)]

GetAvailableSlots(f, date, duration_minutes, start_hour, end_hour) ==
    LET current_time == ParseTime(HourString(start_hour))
        end_time == ParseTime(HourString(end_hour))
    IN  IF ~ParseDate(date).ok
        THEN [file |-> f, raised |-> FALSE, loads |-> 0, writes |-> 0,
              ret |-> <<>>]
        ELSE IF ~current_time.ok \/ ~end_time.ok
        THEN [file |-> f, raised |-> TRUE, loads |-> 0, writes |-> 0,
              ret |-> <<>>]
        ELSE [file |-> f, raised |-> FALSE, writes |-> 0,
              loads |-> Candidates(current_time.minutes, end_time.minutes),
              ret |-> SlotLoop(f, date, duration_minutes, current_time.minutes,
                               end_time.minutes, <<>>)]

\* Lines 165-168: the records of the date, sorted on the time string.
GetDaySchedule(f, date) ==
    LET appointments == GetAppointmentsByDate(f, date)
        items == [i \in 1..Len(appointments) |->
                    [key |-> <<appointments[i].time>>, item |-> appointments[i]]]
        sorted == SortedByKey(items)
    IN  [file |-> f, raised |-> FALSE, loads |-> 1, writes |-> 0,
         ret |-> [i \in 1..Len(sorted) |-> sorted[i].item]]

\* Lines 178-189: the record is not cancelled, its date parses and lies
\* 0..days_ahead days after today.
IsUpcoming(appt, days_ahead, today) ==
    /\ appt.status # "cancelled"
    /\ ParseDate(appt.date).ok
    /\ LET days_diff == ToOrdinal(ParseDate(appt.date)) - ToOrdinal(today)
       IN  0 <= days_diff /\ days_diff <= days_ahead

\* Lines 170-194, today being datetime.now().date(): the upcoming records,
\* sorted on the pair of the date string and the time string.
GetUpcomingAppointments(f, days_ahead, today) ==
    LET appointments == LoadAppointments(f)
        Keep(appt) == IsUpcoming(appt, days_ahead, today)
        upcoming == SelectSeq(appointments, Keep)
        items == [i \in 1..Len(upcoming) |->
                    [key |-> <<upcoming[i].date, upcoming[i].time>>,
                     item |-> upcoming[i]]]
        sorted == SortedByKey(items)
    IN  [file |-> f, raised |-> FALSE, loads |-> 1, writes |-> 0,
         ret |-> [i \in 1..Len(sorted) |-> sorted[i].item]]

----------------------------------------------------------------------------
(* The state machine: one caller, each operation one step.                 *)

File == [data |-> store, readable |-> readable]

\* The two callers, and a caller that is in no operation.
Callers == {"A", "B"}

NoRequest ==
    [op |-> "none", id |-> 0, date |-> <<>>, time |-> <<>>, duration |-> 0]

Idle == [pc |-> "idle", request |-> NoRequest, duration |-> 0,
         appointments |-> <<>>]

Returned(op, o) ==
    [op |-> op, ret |-> o.ret, raised |-> o.raised,
     loads |-> o.loads, writes |-> o.writes]

Init ==
    /\ store = <<>>
    /\ readable = TRUE
    /\ result = [op |-> "init", ret |-> <<>>, raised |-> FALSE,
                 loads |-> 0, writes |-> 0]
    /\ created = <<>>
    /\ deleted = {}
    /\ callers = [p \in Callers |-> Idle]
    /\ acked = <<>>
    /\ stale = FALSE
    /\ undecodable = FALSE

Create(title, date, time, duration_minutes, ok) ==
    LET o == CreateAppointment(File, title, date, time, duration_minutes,
                               "", "", ok)
    IN  /\ Len(o.file.data) <= MaxRecords
        /\ Len(created) < MaxSaves
        /\ store' = o.file.data
        /\ readable' = o.file.readable
        /\ result' = Returned("create", o)
        /\ created' = IF o.ret.success
                      THEN Append(created, o.ret.appointment.id)
                      ELSE created
        /\ UNCHANGED <<deleted, race, undecodable>>

Reschedule(appointment_id, new_date, new_time, ok) ==
    LET o == RescheduleAppointment(File, appointment_id, new_date, new_time, ok)
    IN  /\ store' = o.file.data
        /\ readable' = o.file.readable
        /\ result' = Returned("reschedule", o)
        /\ UNCHANGED <<created, deleted, race, undecodable>>

Cancel(appointment_id, ok) ==
    LET o == CancelAppointment(File, appointment_id, ok)
    IN  /\ store' = o.file.data
        /\ readable' = o.file.readable
        /\ result' = Returned("cancel", o)
        /\ UNCHANGED <<created, deleted, race, undecodable>>

AvailableSlots(date, duration_minutes, start_hour, end_hour) ==
    LET o == GetAvailableSlots(File, date, duration_minutes, start_hour, end_hour)
    IN  /\ result' = Returned("get_available_slots", o)
        /\ UNCHANGED <<store, readable, created, deleted, race, undecodable>>

Next ==
    \/ \E title \in Titles, date \in Dates, time \in Times,
          duration_minutes \in Durations :
          Create(title, date, time, duration_minutes, TRUE)
    \/ \E appointment_id \in Ids, to \in Targets :
          Reschedule(appointment_id, to[1], to[2], TRUE)
    \/ \E appointment_id \in Ids :
          Cancel(appointment_id, TRUE)
    \/ \E date \in Dates, duration_minutes \in Durations, w \in Windows :
          AvailableSlots(date, duration_minutes, w[1], w[2])

Spec == Init /\ [][Next]_vars

----------------------------------------------------------------------------
(* The record store used directly: save, update and delete, as the         *)
(* storage tests call them.                                                *)

Updates == {[time |-> Time1100]}

Save(title, date, time, duration_minutes, ok) ==
    LET o == SaveAppointment(File,
                NewAppointment(title, date, time, duration_minutes, "", ""), ok)
    IN  /\ Len(o.file.data) <= MaxRecords
        /\ Len(created) < MaxSaves
        /\ store' = o.file.data
        /\ readable' = o.file.readable
        /\ result' = [op |-> "save", ret |-> o.ok, raised |-> FALSE,
                      loads |-> 1, writes |-> 1]
        /\ created' = IF o.ok THEN Append(created, o.appointment.id)
                      ELSE created
        /\ UNCHANGED <<deleted, race, undecodable>>

Update(appointment_id, updated_data, ok) ==
    LET o == UpdateAppointment(File, appointment_id, updated_data, ok)
    IN  /\ store' = o.file.data
        /\ readable' = o.file.readable
        /\ result' = [op |-> "update", ret |-> o.ok, raised |-> FALSE,
                      loads |-> 1, writes |-> o.writes]
        /\ UNCHANGED <<created, deleted, race, undecodable>>

Delete(appointment_id, ok) ==
    LET o == DeleteAppointment(File, appointment_id, ok)
    IN  /\ store' = o.file.data
        /\ readable' = o.file.readable
        /\ result' = [op |-> "delete", ret |-> o.ok, raised |-> FALSE,
                      loads |-> 1, writes |-> o.writes]
        /\ deleted' = IF o.ok THEN deleted \cup {appointment_id} ELSE deleted
        /\ UNCHANGED <<created, race, undecodable>>

NextStore ==
    \/ \E title \in Titles :
          Save(title, Date15, Time1000, 60, TRUE)
    \/ \E appointment_id \in Ids, updated_data \in Updates :
          Update(appointment_id, updated_data, TRUE)
    \/ \E appointment_id \in Ids :
          Delete(appointment_id, TRUE)
    \/ \E title \in Titles :
          Create(title, Date15, Time1000, 60, TRUE)
    \/ \E appointment_id \in Ids :
          Cancel(appointment_id, TRUE)

SpecStore == Init /\ [][NextStore]_vars

----------------------------------------------------------------------------
(* The engine with its two views, the day schedule and the upcoming        *)
(* appointments, called with times that strptime takes without a leading   *)
(* zero.                                                                   *)

DaySchedule(date) ==
    LET o == GetDaySchedule(File, date)
    IN  /\ result' = Returned("get_day_schedule", o)
        /\ UNCHANGED <<store, readable, created, deleted, race, undecodable>>

Upcoming(days_ahead, today) ==
    LET o == GetUpcomingAppointments(File, days_ahead, today)
    IN  /\ result' = Returned("get_upcoming_appointments", o)
        /\ UNCHANGED <<store, readable, created, deleted, race, undecodable>>

NextViews ==
    \/ \E title \in Titles, date \in ViewDates, time \in ViewTimes,
          duration_minutes \in Durations :
          Create(title, date, time, duration_minutes, TRUE)
    \/ \E appointment_id \in Ids, to \in ViewTargets :
          Reschedule(appointment_id, to[1], to[2], TRUE)
    \/ \E appointment_id \in Ids :
          Cancel(appointment_id, TRUE)
    \/ \E date \in ViewDates :
          DaySchedule(date)
    \/ \E days_ahead \in DaysAhead, today \in Todays :
          Upcoming(days_ahead, today)

SpecViews == Init /\ [][NextViews]_vars

----------------------------------------------------------------------------
(* The engine with appointments of different lengths on one day.           *)

NextMixed ==
    \/ \E title \in Titles, of \in MixedLengths :
          Create(title, Date15, of[1], of[2], TRUE)
    \/ \E appointment_id \in Ids, to \in MixedTargets :
          Reschedule(appointment_id, to[1], to[2], TRUE)
    \/ \E appointment_id \in Ids :
          Cancel(appointment_id, TRUE)

SpecMixed == Init /\ [][NextMixed]_vars

----------------------------------------------------------------------------
(* The engine with every read-only operation: free slots, day schedule,    *)
(* upcoming appointments and the lookup of one record.                     *)
Lookup(appointment_id) ==
    LET appointment == GetAppointment(File, appointment_id)
    IN  /\ result' = [op |-> "get_appointment", ret |-> appointment,
                      raised |-> FALSE, loads |-> 1, writes |-> 0]
        /\ UNCHANGED <<store, readable, created, deleted, race, undecodable>>

NextQueries ==
    \/ \E title \in Titles, time \in ViewTimes, duration_minutes \in Durations :
          Create(title, Date15, time, duration_minutes, TRUE)
    \/ \E appointment_id \in Ids, to \in ViewTargets :
          Reschedule(appointment_id, to[1], to[2], TRUE)
    \/ \E appointment_id \in Ids :
          Cancel(appointment_id, TRUE)
    \/ \E date \in Dates, duration_minutes \in Durations, w \in Windows :
          AvailableSlots(date, duration_minutes, w[1], w[2])
    \/ \E date \in Dates :
          DaySchedule(date)
    \/ \E days_ahead \in DaysAhead, today \in Todays :
          Upcoming(days_ahead, today)
    \/ \E appointment_id \in Ids :
          Lookup(appointment_id)

SpecQueries == Init /\ [][NextQueries]_vars

----------------------------------------------------------------------------
(* The engine called with any integer as duration_minutes.                 *)

AnyDurations == {-30, 0, 60}

NextDurations ==
    \/ \E title \in Titles, time \in {Time1000, Time1100},
          duration_minutes \in AnyDurations :
          Create(title, Date15, time, duration_minutes, TRUE)
    \/ \E appointment_id \in Ids, to \in MixedTargets :
          Reschedule(appointment_id, to[1], to[2], TRUE)
    \/ \E appointment_id \in Ids :
          Cancel(appointment_id, TRUE)

SpecDurations == Init /\ [][NextDurations]_vars

----------------------------------------------------------------------------
(* The engine on a storage file whose writes can fail: write_text raises   *)
(* and save_appointment or update_appointment returns False.               *)

WriteOutcomes == BOOLEAN

NextFaults ==
    \/ \E title \in Titles, time \in Times, ok \in WriteOutcomes :
          Create(title, Date15, time, 60, ok)
    \/ \E appointment_id \in Ids, to \in Targets, ok \in WriteOutcomes :
          Reschedule(appointment_id, to[1], to[2], ok)
    \/ \E appointment_id \in Ids, ok \in WriteOutcomes :
          Cancel(appointment_id, ok)

SpecFaults == Init /\ [][NextFaults]_vars

----------------------------------------------------------------------------
(* The engine on a storage file that gets lost or damaged.  A file that is *)
(* missing or does not hold JSON makes load_appointments return []         *)
(* (FileNotFoundError and JSONDecodeError are caught, lines 27-28); bytes  *)
(* that are not UTF-8 make read_text raise UnicodeDecodeError, which        *)
(* nothing catches, so the operation raises at its first read of the file. *)

Damages == {"missing", "not_json", "not_utf8"}

Damage(kind) ==
    /\ store' = <<>>
    /\ readable' = FALSE
    /\ undecodable' = (kind = "not_utf8")
    /\ result' = [op |-> "damage", ret |-> kind, raised |-> FALSE,
                  loads |-> 0, writes |-> 0]
    /\ UNCHANGED <<created, deleted, race>>

\* What the operation does on the file as it is: o when the file can be
\* decoded or is not read, the exception of the first read otherwise.
OnFile(o) ==
    IF undecodable /\ o.loads > 0
    THEN [file |-> File, ret |-> <<>>, raised |-> TRUE, loads |-> 1,
          writes |-> 0]
    ELSE o

Operate(op, o) ==
    LET r == OnFile(o)
    IN  /\ store' = r.file.data
        /\ readable' = r.file.readable
        /\ undecodable' = (undecodable /\ r.writes = 0)
        /\ result' = Returned(op, r)
        /\ created' = IF op = "create" /\ ~r.raised /\ r.ret.success
                      THEN Append(created, r.ret.appointment.id)
                      ELSE created
        /\ UNCHANGED <<deleted, race>>

NextDamaged ==
    \/ \E kind \in Damages : Damage(kind)
    \/ \E title \in Titles, time \in {Time1000, Time1100} :
          /\ Len(created) < MaxSaves
          /\ Operate("create", CreateAppointment(File, title, Date15, time, 60,
                                                 "", "", TRUE))
    \/ \E appointment_id \in Ids :
          Operate("reschedule", RescheduleAppointment(File, appointment_id,
                                                      Date15, Time1100, TRUE))
    \/ \E appointment_id \in Ids :
          Operate("cancel", CancelAppointment(File, appointment_id, TRUE))
    \/ Operate("get_available_slots",
               GetAvailableSlots(File, Date15, 60, DefaultStartHour,
                                 DefaultEndHour))
    \/ Operate("get_day_schedule", GetDaySchedule(File, Date15))
    \/ \E today \in Todays :
          Operate("get_upcoming_appointments",
                  GetUpcomingAppointments(File, 7, today))

SpecDamaged == Init /\ [][NextDamaged]_vars

----------------------------------------------------------------------------
(* Two callers on one storage file.  Nothing locks the file, so the steps  *)
(* of an operation that the other caller can come between are its reads    *)
(* (load_appointments) and its write (write_text): get_appointment,         *)
(* _check_conflicts, the load that begins save_appointment or               *)
(* update_appointment, and the write that ends it.                          *)

\* The same day written without the leading zero of the month.
DateAlias == <<"2", "0", "2", "6", "-", "1", "-", "1", "5">>

RaceIds == 1..2

Requests ==
    {[op |-> "create", id |-> 0, date |-> d, time |-> Time1000,
      duration |-> 60] : d \in {Date15, DateAlias}}
    \cup {[op |-> "cancel", id |-> i, date |-> <<>>, time |-> <<>>,
           duration |-> 0] : i \in RaceIds}
    \cup {[op |-> "reschedule", id |-> i, date |-> Date15, time |-> Time1100,
           duration |-> 0] : i \in RaceIds}

InFlight == Cardinality({p \in Callers : callers[p].pc # "idle"})

Answer(op, ret, loads, writes) ==
    [op |-> op, ret |-> ret, raised |-> FALSE, loads |-> loads,
     writes |-> writes]

\* The caller enters an operation.  create validates its strings first
\* (lines 26-30); reschedule and cancel begin with get_appointment.
Call(p, request) ==
    /\ callers[p].pc = "idle"
    /\ Len(acked) + InFlight < MaxCalls
    /\ IF request.op = "create" /\ ~ValidFormat(request.date, request.time)
       THEN /\ result' = Answer("create", [success |-> FALSE,
                                 error |-> InvalidFormatError], 0, 0)
            /\ UNCHANGED callers
       ELSE /\ callers' = [callers EXCEPT ![p] =
                   [Idle EXCEPT !.pc = IF request.op = "create"
                                       THEN "check" ELSE "get",
                                !.request = request,
                                !.duration = request.duration]]
            /\ UNCHANGED result
    /\ UNCHANGED <<store, readable, created, deleted, acked,
                   stale, undecodable>>

\* Lines 122-125 and 150-153: get_appointment reads the file.
Get(p) ==
    LET request == callers[p].request
        appointment == GetAppointment(File, request.id)
    IN  /\ callers[p].pc = "get"
        /\ IF appointment = None
           THEN /\ result' = Answer(request.op, [success |-> FALSE,
                                     error |-> NotFoundError], 1, 0)
                /\ callers' = [callers EXCEPT ![p] = Idle]
           ELSE /\ callers' = [callers EXCEPT
                       ![p].pc = IF request.op = "cancel"
                                 THEN "load" ELSE "check",
                       ![p].duration = appointment.duration_minutes]
                /\ UNCHANGED result
        /\ UNCHANGED <<store, readable, created, deleted, acked,
                   stale, undecodable>>

\* Lines 33-39 and 129-136: _check_conflicts reads the file.
Check(p) ==
    LET request == callers[p].request
        conflicts == CheckConflicts(File, request.date, request.time,
                                    callers[p].duration)
    IN  /\ callers[p].pc = "check"
        /\ IF conflicts # <<>>
           THEN /\ result' = Answer(request.op,
                       [success |-> FALSE,
                        error |-> IF request.op = "create" THEN ConflictError
                                  ELSE RescheduleConflictError,
                        conflicts |-> conflicts], 1, 0)
                /\ callers' = [callers EXCEPT ![p] = Idle]
           ELSE /\ callers' = [callers EXCEPT ![p].pc = "load"]
                /\ UNCHANGED result
        /\ UNCHANGED <<store, readable, created, deleted, acked,
                   stale, undecodable>>

\* storage.py lines 32 and 54: save_appointment and update_appointment
\* begin by loading the whole collection.
Load(p) ==
    /\ callers[p].pc = "load"
    /\ callers' = [callers EXCEPT ![p].pc = "write",
                                  ![p].appointments = LoadAppointments(File)]
    /\ UNCHANGED <<store, readable, result, created, deleted, acked,
                   stale, undecodable>>

\* storage.py lines 33-39 and 56-62: the collection that was loaded is
\* changed and written back whole, and the operation returns.
Write(p) ==
    LET request == callers[p].request
        loaded == [data |-> callers[p].appointments, readable |-> TRUE]
        saved == SaveAppointment(loaded,
                    NewAppointment("Meeting", request.date, request.time,
                                   callers[p].duration, p, ""), TRUE)
        updated == UpdateAppointment(loaded, request.id,
                      IF request.op = "cancel" THEN [status |-> "cancelled"]
                      ELSE [date |-> request.date, time |-> request.time],
                      TRUE)
        out == IF request.op = "create" THEN saved ELSE updated
        id == IF request.op = "create" THEN saved.appointment.id
              ELSE request.id
    IN  /\ callers[p].pc = "write"
        /\ store' = IF out.ok THEN out.file.data ELSE store
        /\ readable' = IF out.ok THEN out.file.readable ELSE readable
        /\ result' = Answer(request.op,
                        IF request.op = "create"
                        THEN [success |-> TRUE, appointment |-> saved.appointment]
                        ELSE [success |-> out.ok], 1,
                        IF out.ok THEN 1 ELSE 0)
        /\ created' = IF request.op = "create" THEN Append(created, id)
                      ELSE created
        /\ acked' = IF out.ok
                    THEN Append(acked, [op |-> request.op, id |-> id,
                                        who |-> p, date |-> request.date,
                                        time |-> request.time])
                    ELSE acked
        /\ stale' = (stale \/ (out.ok /\ loaded # File))
        /\ callers' = [callers EXCEPT ![p] = Idle]
        /\ UNCHANGED <<deleted, undecodable>>

NextRace ==
    \/ \E p \in Callers, request \in Requests : Call(p, request)
    \/ \E p \in Callers : Get(p)
    \/ \E p \in Callers : Check(p)
    \/ \E p \in Callers : Load(p)
    \/ \E p \in Callers : Write(p)

SpecRace == Init /\ [][NextRace]_vars

----------------------------------------------------------------------------
(* What the claims speak of.                                               *)

Scheduled(a) == a.status # "cancelled"

TimeParses(a) == ParseTime(a.time).ok

StartOf(a) == ParseTime(a.time).minutes

EndOf(a) == StartOf(a) + a.duration_minutes

Max(a, b) == IF a > b THEN a ELSE b

Min(a, b) == IF a < b THEN a ELSE b

\* The half-open intervals [s1, e1) and [s2, e2) share a point.
IntervalsOverlap(s1, e1, s2, e2) == Max(s1, s2) < Min(e1, e2)

Range(s) == {s[i] : i \in 1..Len(s)}

----------------------------------------------------------------------------
(* C1: no two records that are not cancelled and have the same date have   *)
(* overlapping intervals [time, time + duration).  Stated on the records   *)
(* whose time parses, since only those have an interval.                   *)
C1_NoOverlap ==
    \A i, j \in 1..Len(store) :
        ( /\ i < j
          /\ Scheduled(store[i]) /\ Scheduled(store[j])
          /\ store[i].date = store[j].date
          /\ TimeParses(store[i]) /\ TimeParses(store[j]) )
        => ~IntervalsOverlap(StartOf(store[i]), EndOf(store[i]),
                             StartOf(store[j]), EndOf(store[j]))

(* C2: no two stored records share an identifier, and no stored record     *)
(* carries an identifier that a deleted record had.                        *)
C2_UniqueNeverReused ==
    /\ \A i, j \in 1..Len(store) : i # j => store[i].id # store[j].id
    /\ \A i \in 1..Len(store) : store[i].id \notin deleted

(* C3: the successful creates were given the identifiers 1..N in creation  *)
(* order, the stored records carry them in that order, and a create that   *)
(* fails leaves the storage file, and so the next identifier, as it was.   *)
C3_IdsInCreationOrder ==
    /\ \A i \in 1..Len(created) : created[i] = i
    /\ Len(store) = Len(created)
    /\ \A i \in 1..Len(store) : store[i].id = i
    /\ \A title \in Titles, date \in Dates, time \in Times,
          duration_minutes \in Durations :
          LET o == CreateAppointment(File, title, date, time,
                                     duration_minutes, "", "", TRUE)
          IN  IF o.ret.success
              THEN o.ret.appointment.id = Len(created) + 1
              ELSE /\ o.ret.error \in {InvalidFormatError, ConflictError}
                   /\ o.file = File

\* Three creates succeeded, the last just now, after a failed create, a
\* reschedule and a cancel had their effect.
C3_Witness ==
    /\ Len(created) = 3
    /\ result.op = "create"
    /\ result.ret.success
    /\ result.ret.appointment.id = 3
    /\ \E i \in 1..Len(store) : store[i].status = "cancelled"
    /\ \E i \in 1..Len(store) : Scheduled(store[i]) /\ store[i].updated_at

(* C5: a create whose date or time does not parse returns the              *)
(* InvalidFormat failure, reads and writes the storage file zero times     *)
(* and leaves it unchanged.                                                *)
C5_InvalidFormatRejected ==
    /\ \A title \in Titles, date \in Dates, time \in Times,
          duration_minutes \in Durations :
          LET o == CreateAppointment(File, title, date, time,
                                     duration_minutes, "", "", TRUE)
          IN  (~StrptimeYMD(date).ok \/ ~StrptimeHM(time).ok)
              => /\ o.ret = [success |-> FALSE, error |-> InvalidFormatError]
                 /\ ~o.raised
                 /\ o.loads = 0
                 /\ o.writes = 0
                 /\ o.file = File
    /\ ( /\ result.op = "create"
         /\ "error" \in DOMAIN result.ret
         /\ result.ret.error = InvalidFormatError )
       => result.loads = 0 /\ result.writes = 0

\* A create has just been refused for its format while records are stored.
C5_Witness ==
    /\ result.op = "create"
    /\ result.ret = [success |-> FALSE, error |-> InvalidFormatError]
    /\ Len(store) >= 2

(* C6: every stored record has a date that parses as YYYY-MM-DD and a      *)
(* time that parses as HH:MM.                                              *)
C6_StoredStringsParse ==
    \A i \in 1..Len(store) :
        StrptimeYMD(store[i].date).ok /\ StrptimeHM(store[i].time).ok

----------------------------------------------------------------------------
(* Conflicts as the specification defines them, on the stored records.     *)

\* The records on date that are not cancelled and whose interval satisfies
\* start < appt_end and end > appt_start.
TrueConflicts(date, start, end) ==
    LET Hit(a) == /\ a.date = date
                  /\ Scheduled(a)
                  /\ TimeParses(a)
                  /\ start < EndOf(a)
                  /\ end > StartOf(a)
    IN  SelectSeq(store, Hit)

Entries(appointments) == {ConflictEntry(a) : a \in Range(appointments)}

\* The start times on the 30-minute grid from start_hour:00 to end_hour:00.
Grid(start_hour, end_hour) ==
    {t \in (60 * start_hour)..(60 * end_hour - 1) :
        (t - 60 * start_hour) % 30 = 0}

Minutes(slots) == {ParseTime(slots[k]).minutes : k \in 1..Len(slots)}

ClaimWindows == Windows \cup {<<10, 12>>, <<12, 10>>, <<11, 11>>}

Time0900 == <<"0", "9", ":", "0", "0">>
Time0930 == <<"0", "9", ":", "3", "0">>

(* C4: a well-formed create fails with ConflictDetected exactly when some  *)
(* stored record of the date that is not cancelled satisfies               *)
(* new_start < appt_end and new_end > appt_start, the conflict list is     *)
(* the set of those records, and otherwise the record is created.          *)
C4_ConflictIffOverlap ==
    \A title \in Titles, date \in Dates, time \in Times,
       duration_minutes \in Durations :
        (StrptimeYMD(date).ok /\ StrptimeHM(time).ok)
        => LET o == CreateAppointment(File, title, date, time,
                                      duration_minutes, "", "", TRUE)
               new_start == StrptimeHM(time).minutes
               hits == TrueConflicts(date, new_start,
                                     new_start + duration_minutes)
           IN  IF hits # <<>>
               THEN /\ ~o.ret.success
                    /\ "conflicts" \in DOMAIN o.ret
                    /\ o.ret.error = ConflictError
                    /\ Range(o.ret.conflicts) = Entries(hits)
               ELSE /\ o.ret.success
                    /\ o.file.data = Append(store, o.ret.appointment)

(* C7: a reschedule of a stored record to a slot that overlaps a record of *)
(* new_date that is not cancelled returns ConflictDetected with the list   *)
(* of the overlapping records and leaves the storage file unchanged.       *)
C7_RescheduleConflictKeepsStore ==
    \A appointment_id \in Ids, to \in Targets :
        LET appointment == GetAppointment(File, appointment_id)
            o == RescheduleAppointment(File, appointment_id, to[1], to[2], TRUE)
            new_start == StrptimeHM(to[2]).minutes
            hits == TrueConflicts(to[1], new_start,
                                  new_start + appointment.duration_minutes)
        IN  ( /\ appointment # None
              /\ StrptimeHM(to[2]).ok
              /\ hits # <<>> )
            => /\ ~o.ret.success
               /\ "conflicts" \in DOMAIN o.ret
               /\ o.ret.error = RescheduleConflictError
               /\ Range(o.ret.conflicts) = Entries(hits)
               /\ o.file = File

(* C8: get_available_slots returns no start time s whose interval          *)
(* [s, s + duration) overlaps the interval of a stored record of that      *)
(* date that is not cancelled.                                             *)
C8_SlotsAvoidAppointments ==
    \A date \in Dates, duration_minutes \in Durations, w \in ClaimWindows :
        LET o == GetAvailableSlots(File, date, duration_minutes, w[1], w[2])
        IN  \A s \in Minutes(o.ret) :
                \A i \in 1..Len(store) :
                    ( /\ store[i].date = date
                      /\ Scheduled(store[i])
                      /\ TimeParses(store[i]) )
                    => ~IntervalsOverlap(s, s + duration_minutes,
                                         StartOf(store[i]), EndOf(store[i]))

\* The slots returned are ascending without duplicates, and are the
\* candidates of the grid for which the conflict check finds nothing.
SlotsAreFreeGrid(o, date, duration_minutes, start_hour, end_hour) ==
    /\ ~o.raised
    /\ \A k \in 1..(Len(o.ret) - 1) :
          ParseTime(o.ret[k]).minutes < ParseTime(o.ret[k + 1]).minutes
    /\ \A k \in 1..Len(o.ret) : o.ret[k] = FormatTime(ParseTime(o.ret[k]).minutes)
    /\ Minutes(o.ret) =
          {t \in Grid(start_hour, end_hour) :
              CheckConflicts(File, date, FormatTime(t), duration_minutes) = <<>>}

\* The scenario of the claim: only a 10:00-11:00 appointment is stored.
OnlyTenToEleven ==
    /\ Len(store) = 1
    /\ store[1].date = Date15
    /\ store[1].time = Time1000
    /\ store[1].duration_minutes = 60
    /\ Scheduled(store[1])

ScenarioSlots(slots) ==
    /\ {Time0930, Time1000, Time1030} \cap Range(slots) = {}
    /\ {Time0900, Time1100} \subseteq Range(slots)

C10_CancelFreesSlot ==
    [][\A i \in 1..Len(store) :
          ( /\ result'.op = "cancel"
            /\ result'.ret.success
            /\ Len(store') = Len(store)
            /\ Scheduled(store[i])
            /\ ~Scheduled(store'[i])
            /\ StrptimeYMD(store[i].date).ok
            /\ TimeParses(store[i])
            /\ StartOf(store[i]) \in Grid(DefaultStartHour, DefaultEndHour) )
          => StartOf(store[i]) \in
                Minutes(GetAvailableSlots(
                            [data |-> store', readable |-> readable'],
                            store[i].date, store[i].duration_minutes,
                            DefaultStartHour, DefaultEndHour).ret)]_vars

----------------------------------------------------------------------------
(* C11: a create that succeeds stores its record last with status          *)
(* scheduled, every status is scheduled or cancelled, and a record that is *)
(* cancelled is still there and still cancelled after every step.          *)
C11_CancelledStaysCancelled ==
    [][ /\ \A i \in 1..Len(store) :
              store[i].status = "cancelled"
              => /\ i <= Len(store')
                 /\ store'[i].id = store[i].id
                 /\ store'[i].status = "cancelled"
        /\ \A i \in 1..Len(store') :
              store'[i].status \in {"scheduled", "cancelled"}
        /\ (result'.op = "create" /\ result'.ret.success)
           => /\ result'.ret.appointment.status = "scheduled"
              /\ store' = Append(store, result'.ret.appointment) ]_vars

\* A reschedule has just succeeded on a cancelled record: every record
\* stored is cancelled.
C11_Witness ==
    /\ result.op = "reschedule"
    /\ result.ret.success
    /\ Len(store) >= 2
    /\ \A i \in 1..Len(store) : store[i].status = "cancelled"

(* C12: reschedule and cancel of an identifier that no stored record has   *)
(* return the NotFound failure, write nothing and leave the storage file   *)
(* unchanged.                                                              *)
C12_NotFoundKeepsStore ==
    \A appointment_id \in Ids :
        (\A i \in 1..Len(store) : store[i].id # appointment_id)
        => /\ \A to \in Targets :
                 LET o == RescheduleAppointment(File, appointment_id,
                                                to[1], to[2], TRUE)
                 IN  /\ o.ret = [success |-> FALSE, error |-> NotFoundError]
                     /\ ~o.raised
                     /\ o.writes = 0
                     /\ o.file = File
           /\ LET o == CancelAppointment(File, appointment_id, TRUE)
              IN  /\ o.ret = [success |-> FALSE, error |-> NotFoundError]
                  /\ ~o.raised
                  /\ o.writes = 0
                  /\ o.file = File

\* A reschedule of an unknown identifier has just been refused while
\* records are stored.
C12_Witness ==
    /\ result.op = "reschedule"
    /\ result.ret = [success |-> FALSE, error |-> NotFoundError]
    /\ Len(store) >= 2

(* C13: get_day_schedule returns the stored records of the date, each      *)
(* once, cancelled ones included, and none other, in ascending order of    *)
(* the time of day.                                                        *)
C13_DayScheduleByTimeOfDay ==
    \A date \in ViewDates \cup {BadDate} :
        LET o == GetDaySchedule(File, date)
            OnDate(a) == a.date = date
            want == SelectSeq(store, OnDate)
        IN  /\ ~o.raised
            /\ Len(o.ret) = Len(want)
            /\ Range(o.ret) = Range(want)
            /\ \A k \in 1..(Len(o.ret) - 1) :
                  (TimeParses(o.ret[k]) /\ TimeParses(o.ret[k + 1]))
                  => StartOf(o.ret[k]) <= StartOf(o.ret[k + 1])

(* C14: what create, reschedule and cancel return is a structured result:  *)
(* with success false it carries an error message, also when the write of  *)
(* the storage file failed, and with success true an appointment or a      *)
(* message; none of them raises.                                           *)
C14_FailureCarriesError ==
    result.op \in {"create", "reschedule", "cancel"}
    => /\ ~result.raised
       /\ IF result.ret.success
          THEN \/ /\ "appointment" \in DOMAIN result.ret
                  /\ result.ret.appointment # None
               \/ "message" \in DOMAIN result.ret
          ELSE "error" \in DOMAIN result.ret

----------------------------------------------------------------------------
(* Mutations that were reported successful and are not in the store.       *)

\* The mutation acked[k] has left its mark in the store: the record created
\* is there, the record cancelled is cancelled, the record rescheduled has
\* the date and time asked for unless a later reschedule moved it again.
Present(k) ==
    LET e == acked[k] IN
    IF e.op = "create"
    THEN \E i \in 1..Len(store) :
            store[i].id = e.id /\ store[i].client_name = e.who
    ELSE IF e.op = "cancel"
    THEN \E i \in 1..Len(store) :
            store[i].id = e.id /\ store[i].status = "cancelled"
    ELSE \/ \E j \in (k + 1)..Len(acked) :
               acked[j].op = "reschedule" /\ acked[j].id = e.id
         \/ \E i \in 1..Len(store) :
               /\ store[i].id = e.id
               /\ store[i].date = e.date
               /\ store[i].time = e.time

Lost == {k \in 1..Len(acked) : ~Present(k)}

Writers == {acked[k].who : k \in 1..Len(acked)}

(* C15: a mutation reported successful is absent from the store only after *)
(* a caller wrote back a collection it had loaded before the other         *)
(* caller's write, which takes two callers; while one caller alone has     *)
(* written, nothing is lost.                                               *)
C15_LostOnlyByStaleRewrite ==
    /\ Lost # {} => stale
    /\ stale => Writers = Callers
    /\ Cardinality(Writers) <= 1 => Lost = {}

\* Both callers were told their create succeeded, and the store holds the
\* record of one of them only.
C15_Witness ==
    /\ Len(acked) = 2
    /\ acked[1].op = "create" /\ acked[2].op = "create"
    /\ acked[1].who # acked[2].who
    /\ Lost = {1}
    /\ Len(store) = 1
    /\ stale

(* C16: get_upcoming_appointments returns the stored records that are not  *)
(* cancelled and whose date parses and lies from today to today +          *)
(* days_ahead, each once and none other, without raising, in ascending     *)
(* order of the date and then of the time of day.                          *)
C16_UpcomingInWindowSorted ==
    \A days_ahead \in DaysAhead, today \in Todays :
        LET o == GetUpcomingAppointments(File, days_ahead, today)
            DaysAfter(a) == ToOrdinal(StrptimeYMD(a.date)) - ToOrdinal(today)
            want == {a \in Range(store) :
                        /\ Scheduled(a)
                        /\ StrptimeYMD(a.date).ok
                        /\ 0 <= DaysAfter(a)
                        /\ DaysAfter(a) <= days_ahead}
        IN  /\ ~o.raised
            /\ Range(o.ret) = want
            /\ Len(o.ret) = Cardinality(want)
            /\ \A k \in 1..(Len(o.ret) - 1) :
                  \/ DaysAfter(o.ret[k]) < DaysAfter(o.ret[k + 1])
                  \/ /\ DaysAfter(o.ret[k]) = DaysAfter(o.ret[k + 1])
                     /\ (TimeParses(o.ret[k]) /\ TimeParses(o.ret[k + 1]))
                        => StartOf(o.ret[k]) <= StartOf(o.ret[k + 1])

(* C17: a reschedule of a record that is not cancelled to a time on its    *)
(* own date whose interval overlaps the interval the record has now, the   *)
(* same date and time included, returns ConflictDetected with the record   *)
(* itself in the conflict list and leaves the storage file unchanged.      *)
C17_SelfConflictRejected ==
    \A appointment_id \in Ids, to \in Targets :
        LET appointment == GetAppointment(File, appointment_id)
            o == RescheduleAppointment(File, appointment_id, to[1], to[2], TRUE)
            new_start == StrptimeHM(to[2]).minutes
        IN  ( /\ appointment # None
              /\ Scheduled(appointment)
              /\ to[1] = appointment.date
              /\ TimeParses(appointment)
              /\ StrptimeHM(to[2]).ok
              /\ IntervalsOverlap(new_start,
                                  new_start + appointment.duration_minutes,
                                  StartOf(appointment), EndOf(appointment)) )
            => /\ ~o.ret.success
               /\ "conflicts" \in DOMAIN o.ret
               /\ o.ret.error = RescheduleConflictError
               /\ ConflictEntry(appointment) \in Range(o.ret.conflicts)
               /\ o.file = File

----------------------------------------------------------------------------
\* The collection with the record of the identifier changed by the fields
\* given and stamped, and every other record as it is.
OnlyChanged(appointment_id, fields) ==
    [j \in 1..Len(store) |->
        IF store[j].id = appointment_id
        THEN [k \in DOMAIN store[j] |->
                 IF k \in DOMAIN fields THEN fields[k]
                 ELSE IF k = "updated_at" THEN TRUE
                 ELSE store[j][k]]
        ELSE store[j]]

(* C18: a reschedule of a stored record succeeds exactly when the conflict *)
(* check with the record's stored duration finds nothing, and then changes *)
(* the date, the time and the update stamp of that record and nothing      *)
(* else; a cancel of a stored record succeeds and changes its status and   *)
(* update stamp and nothing else; the other records, their number and      *)
(* their order stay.                                                       *)
C18_UpdateChangesOnlyItsFields ==
    \A appointment_id \in Ids :
        LET appointment == GetAppointment(File, appointment_id)
            c == CancelAppointment(File, appointment_id, TRUE)
        IN  appointment # None
            => /\ \A to \in MixedTargets :
                     LET o == RescheduleAppointment(File, appointment_id,
                                                    to[1], to[2], TRUE)
                     IN  /\ o.ret.success
                            <=> CheckConflicts(File, to[1], to[2],
                                    appointment.duration_minutes) = <<>>
                         /\ o.ret.success
                            => o.file.data =
                                  OnlyChanged(appointment_id,
                                      [date |-> to[1], time |-> to[2]])
                         /\ ~o.ret.success => o.file = File
               /\ c.ret.success
               /\ c.file.data =
                     OnlyChanged(appointment_id, [status |-> "cancelled"])

\* A half-hour appointment has just been moved to 10:30, next to an
\* appointment at 11:00 that an hour from 10:30 would run into.
C18_Witness ==
    /\ result.op = "reschedule"
    /\ result.ret.success
    /\ \E i, j \in 1..Len(store) :
          /\ store[i].date = Date15 /\ store[j].date = Date15
          /\ store[i].time = Time1030 /\ store[i].duration_minutes = 30
          /\ store[i].updated_at /\ Scheduled(store[i])
          /\ store[j].time = Time1100 /\ Scheduled(store[j])
          /\ ~store[j].updated_at

(* C19: every record of the store is still there after a step, at its      *)
(* place and with its identifier, get_appointment of the identifier        *)
(* returns it, and the number of records has not gone down.                *)
C19_RecordsPersist ==
    [][ /\ Len(store') >= Len(store)
        /\ \A i \in 1..Len(store) :
              /\ i <= Len(store')
              /\ store'[i].id = store[i].id
              /\ GetAppointment([data |-> store', readable |-> readable'],
                                store[i].id) = store'[i] ]_vars

\* Three records are stored, one of them rescheduled, and a cancel has
\* just succeeded.
C19_Witness ==
    /\ result.op = "cancel"
    /\ result.ret.success
    /\ Len(store) = 3
    /\ \E i \in 1..Len(store) : store[i].status = "cancelled"
    /\ \E i \in 1..Len(store) : store[i].updated_at /\ Scheduled(store[i])
    /\ \A i \in 1..Len(store) : GetAppointment(File, i) = store[i]

----------------------------------------------------------------------------
\* Two stored records that are not cancelled lie on the same day of the
\* calendar and their intervals overlap.
SameDay(a, b) ==
    /\ ParseDate(a.date).ok
    /\ ParseDate(b.date).ok
    /\ ParseDate(a.date) = ParseDate(b.date)

Overlapping ==
    \E i, j \in 1..Len(store) :
        /\ i < j
        /\ Scheduled(store[i]) /\ Scheduled(store[j])
        /\ SameDay(store[i], store[j])
        /\ TimeParses(store[i]) /\ TimeParses(store[j])
        /\ IntervalsOverlap(StartOf(store[i]), EndOf(store[i]),
                            StartOf(store[j]), EndOf(store[j]))

(* C20: while a single caller has written the store, no two of its records *)
(* that are not cancelled overlap on the same day; overlapping records     *)
(* take two callers whose creates interleave.                              *)
C20_SingleWriterNoOverlap ==
    Cardinality(Writers) <= 1 => ~Overlapping

----------------------------------------------------------------------------
(* C21: every stored record has a duration of more than zero minutes.      *)
C21_DurationsPositive ==
    \A i \in 1..Len(store) : store[i].duration_minutes > 0

(* C22: on a storage file that is missing or damaged no operation raises:  *)
(* a create succeeds with identifier 1, reschedule and cancel return       *)
(* NotFound, the day schedule and the upcoming appointments are empty and  *)
(* get_available_slots returns its list.                                   *)
C22_DamagedStoreDegrades ==
    ~readable
    => /\ LET o == OnFile(CreateAppointment(File, "Meeting", Date15, Time1000,
                                            60, "", "", TRUE))
          IN  /\ ~o.raised
              /\ o.ret.success
              /\ o.ret.appointment.id = 1
       /\ \A appointment_id \in Ids :
             LET r == OnFile(RescheduleAppointment(File, appointment_id,
                                                   Date15, Time1100, TRUE))
                 c == OnFile(CancelAppointment(File, appointment_id, TRUE))
             IN  /\ ~r.raised
                 /\ r.ret = [success |-> FALSE, error |-> NotFoundError]
                 /\ ~c.raised
                 /\ c.ret = [success |-> FALSE, error |-> NotFoundError]
       /\ LET d == OnFile(GetDaySchedule(File, Date15))
              a == OnFile(GetAvailableSlots(File, Date15, 60, DefaultStartHour,
                                            DefaultEndHour))
          IN  /\ ~d.raised /\ d.ret = <<>>
              /\ ~a.raised /\ Len(a.ret) = 16
       /\ \A today \in Todays :
             LET u == OnFile(GetUpcomingAppointments(File, 7, today))
             IN  ~u.raised /\ u.ret = <<>>

(* C23: with two callers interleaving, the identifiers of the stored       *)
(* records are 1..Len(store), each once, in the order of the records.      *)
C23_IdsAreOneToLen ==
    /\ {store[i].id : i \in 1..Len(store)} = 1..Len(store)
    /\ \A i, j \in 1..Len(store) : store[i].id = store[j].id => i = j
    /\ \A i \in 1..Len(store) : store[i].id = i

\* Three creates were reported successful, one record was overwritten and
\* the two that are left carry 1 and 2.
C23_Witness ==
    /\ Len(acked) = 3
    /\ \A k \in 1..Len(acked) : acked[k].op = "create"
    /\ Writers = Callers
    /\ Cardinality(Lost) = 1
    /\ Len(store) = 2
    /\ store[1].id = 1 /\ store[2].id = 2

----------------------------------------------------------------------------
(* C24: get_available_slots with a date that does not parse returns the    *)
(* empty list without reading the storage file; get_available_slots,       *)
(* get_day_schedule, get_upcoming_appointments and get_appointment leave    *)
(* the storage file as it is, whatever their arguments.                    *)
C24_QueriesLeaveStore ==
    /\ \A date \in Dates, duration_minutes \in Durations, w \in ClaimWindows :
          LET o == GetAvailableSlots(File, date, duration_minutes, w[1], w[2])
          IN  /\ o.file = File
              /\ o.writes = 0
              /\ ~StrptimeYMD(date).ok
                 => /\ o.ret = <<>>
                    /\ ~o.raised
                    /\ o.loads = 0
    /\ \A date \in Dates \cup ViewDates :
          LET o == GetDaySchedule(File, date)
          IN  o.file = File /\ o.writes = 0
    /\ \A days_ahead \in DaysAhead, today \in Todays :
          LET o == GetUpcomingAppointments(File, days_ahead, today)
          IN  o.file = File /\ o.writes = 0
    /\ \A appointment_id \in Ids :
          LET appointment == GetAppointment(File, appointment_id)
          IN  appointment # None => appointment \in Range(store)

\* get_available_slots has just answered a date that does not parse,
\* with the empty list and no read, while records are stored.
C24_Witness ==
    /\ result.op = "get_available_slots"
    /\ result.ret = <<>>
    /\ ~result.raised
    /\ result.loads = 0
    /\ \E i \in 1..Len(store) : ~StrptimeYMD(store[i].date).ok

====
